---- MODULE Spec2Model ----
(***************************************************************************)
(* y-query: typed tables, one-shot reads and live watchers over a Yjs      *)
(* document.  The table modelled here has the fields of the test tables:   *)
(*   key, foo (inline boolean), bar (inline string),                       *)
(*   opt (inline string, optional: a row may omit it),                     *)
(*   nested (z.object({value}) stored in its own root map T.K.nested),     *)
(*   rawMap (raw Y.Map at T.K.rawMap).                                     *)
(* Every container is a ROOT type of the document (doc.getMap(path)), so   *)
(* a sub-container is not a child of the row container in the Yjs tree.    *)
(***************************************************************************)
EXTENDS Integers, Sequences, FiniteSets, TLC

Keys == {"k1", "k2"}
Undef == "undef"
Bools == {"true", "false"}
Strs == {"a", "b"}
Levels == {"keys", "content", "deep"}
Null == [isNull |-> TRUE]

\* Cap on the number of listeners attached to one row container.
MaxObs == 3

VARIABLES
    index,        \* keys present in the table index map T
    indexOrder,   \* iteration order of T: keys in order of first insertion
    rowMap,       \* inline fields of the row container T.k
    nestedMap,    \* field `value` of the sub-container T.k.nested
    rawMap,       \* whether 'foo' was set in the raw container T.k.rawMap
    eh,           \* shallow listeners (_eH.l) of each row container
    deh,          \* deep listeners (_dEH.l) of each row container
    tbl,          \* listeners of the table index map
    sub,          \* the watch() subscription: status, level, query
    visibleData,  \* Subscription.visibleData
    rowUnobservers, \* watch(): key -> stored function
    calls,        \* invocations of the watcher during the last operation
    wk,           \* the watchKey() subscription: status, level, key, and
                  \* whether unobserveRow is set
    kcalls,       \* invocations of the watchKey watcher during the last
                  \* operation
    told,         \* a watcher of watch() that keeps the keys it holds:
                  \* reported as added and not since reported as removed
    node,         \* table V: the schema node of field x (kind, syncAs,
                  \* shallow)
    vrow,         \* table V: inline fields of the row container V.k1
    vsub,         \* table V: fields of the sub-container V.k1.x
    vindex,       \* table V: whether k1 is in the index
    op            \* the last operation and its arguments

docVars == <<index, indexOrder, rowMap, nestedMap, rawMap>>
obsVars == <<eh, deh, tbl>>
subVars == <<sub, visibleData, rowUnobservers>>
logVars == <<calls, told>>
keyVars == <<wk, kcalls>>
vars == <<index, indexOrder, rowMap, nestedMap, rawMap, eh, deh, tbl,
          sub, visibleData, rowUnobservers, calls, wk, kcalls, told,
          node, vrow, vsub, vindex, op>>
schemaVars == <<node, vrow, vsub, vindex>>

----------------------------------------------------------------------------
(* Filter algebra: a filter is a predicate over the shallow row container. *)

any == [op |-> "any"]
eq(field, value) == [op |-> "eq", field |-> field, value |-> value]
not(f) == [op |-> "not", arg |-> f]
\* Variant: the conjunction accepts a row that one operand accepts.
and_AnyOperand(f, g) == [op |-> "or", left |-> f, right |-> g]
and(f, g) == [op |-> "and", left |-> f, right |-> g]
or(f, g) == [op |-> "or", left |-> f, right |-> g]

\* Y.Map.get on the row container: only inline fields are stored there.
RowGet(rw, field) == IF field \in DOMAIN rw THEN rw[field] ELSE Undef

RECURSIVE Query(_, _)
Query(f, rw) ==
    CASE f.op = "any" -> TRUE
      [] f.op = "eq"  -> RowGet(rw, f.field) = f.value
      [] f.op = "not" -> ~Query(f.arg, rw)
      [] f.op = "and" -> Query(f.left, rw) /\ Query(f.right, rw)
      [] f.op = "or"  -> Query(f.left, rw) \/ Query(f.right, rw)

\* The query of the subscriptions of the model (README, table.test.ts).
WatchQueries == {eq("foo", "true")}

----------------------------------------------------------------------------
(* Row codec.                                                              *)

\* readObject for the nested record at T.k.nested (schema {value: string}).
ReadNested(nv) == IF nv \in Strs THEN [value |-> nv] ELSE Null

\* Variant: the assembled row is returned without being parsed.
ReadObject_NoParse(rw, nv, k) ==
    IF ReadNested(nv) = Null THEN Null
    ELSE [key |-> k, foo |-> rw.foo, bar |-> rw.bar,
          nested |-> ReadNested(nv)]

\* readObject for the row: assemble, then safeParse; null when invalid.
\* The optional field is part of the row when the container holds it.
ReadObject(rw, nv, k) ==
    IF ReadNested(nv) = Null THEN Null
    ELSE IF rw.foo \in Bools /\ rw.bar \in Strs
         THEN IF rw.opt = Undef
              THEN [key |-> k, foo |-> rw.foo, bar |-> rw.bar,
                    nested |-> ReadNested(nv)]
              ELSE [key |-> k, foo |-> rw.foo, bar |-> rw.bar,
                    opt |-> rw.opt, nested |-> ReadNested(nv)]
         ELSE Null

readDataPresent(rws, nvs, k) == ReadObject(rws[k], nvs[k], k)

\* Variant: the index is not consulted.
readData_IgnoresIndex(idx, rws, nvs, k) == ReadObject(rws[k], nvs[k], k)

readData(idx, rws, nvs, k) ==
    IF k \in idx THEN ReadObject(rws[k], nvs[k], k) ELSE Null

getKey(k) == readData(index, rowMap, nestedMap, k)

\* Variant: the deleted entries of the index are iterated as well.
allKeys_WithDeleted(idx, order) == order

\* allKeys: Y.Map.keys() iterates in order of first insertion, skipping
\* deleted entries.
allKeys(idx, order) == SelectSeq(order, LAMBDA k : k \in idx)

RECURSIVE SelectFrom(_, _, _, _)
SelectFrom(ks, rws, nvs, q) ==
    IF ks = <<>> THEN <<>>
    ELSE LET k == Head(ks)
             rest == SelectFrom(Tail(ks), rws, nvs, q)
         IN IF Query(q, rws[k]) /\ readDataPresent(rws, nvs, k) # Null
            THEN <<readDataPresent(rws, nvs, k)>> \o rest
            ELSE rest

select(q) == SelectFrom(allKeys(index, indexOrder), rowMap, nestedMap, q)

\* Payloads: a full row for upsert, a partial one for update.  An omitted
\* inline field is Undef; an omitted nested record is Omitted.
Omitted == [omitted |-> TRUE]
FullRows ==
    [foo : Bools, bar : Strs, nested : [value : Strs]]
Partials ==
    {p \in [foo : Bools \cup {Undef}, bar : Strs \cup {Undef},
            nested : {Omitted} \cup [value : Strs \cup {Undef}]] :
        p.foo = Undef \/ p.nested = Omitted}

\* data[field]: undefined when the payload does not have the field.
Field(data, f) == IF f \in DOMAIN data THEN data[f] ELSE Undef

\* writeObject on the row container: row.set for every given inline field.
WriteRow(rw, data) ==
    [foo |-> IF data.foo = Undef THEN rw.foo ELSE data.foo,
     bar |-> IF data.bar = Undef THEN rw.bar ELSE data.bar,
     opt |-> IF Field(data, "opt") = Undef THEN rw.opt ELSE data.opt]

\* Variant: a given nested record replaces the stored one as a whole.
WriteNested_Replaces(nv, data) ==
    IF data.nested = Omitted THEN nv ELSE data.nested.value

\* writeObject on the sub-container T.k.nested (recursive call).
WriteNested(nv, data) ==
    IF data.nested = Omitted THEN nv
    ELSE IF data.nested.value = Undef THEN nv ELSE data.nested.value

\* Which containers a write changes (Y.Map.set always creates an item).
\* Variant: the raw container takes the content of the map in the payload.
WriteRaw_FromPayload(rv, data) ==
    IF "rawMap" \in DOMAIN data THEN data.rawMap ELSE rv

\* writeObject on a field synced as a raw Yjs type: nothing is written,
\* whatever the payload carries for the field.
WriteRaw(rv, data) == rv

NestedTouched(data) ==
    IF data.nested = Omitted THEN FALSE ELSE data.nested.value # Undef

\* Variant: the nested record is also written into the row container.
RowTouched_NestedInline(data) ==
    \/ data.foo # Undef \/ data.bar # Undef \/ Field(data, "opt") # Undef
    \/ NestedTouched(data)

RowTouched(data) ==
    data.foo # Undef \/ data.bar # Undef \/ Field(data, "opt") # Undef

----------------------------------------------------------------------------
(* Yjs event handlers.  A listener list is a JavaScript array: observe     *)
(* pushes onto the array in place, unobserve replaces it by a filtered     *)
(* copy, and a dispatch iterates the array it started with until its       *)
(* current end.  The machine record m carries the subscription state, the  *)
(* listener arrays and the array under iteration while observers run.      *)

RowListener(id) == [kind |-> "row", id |-> id]
WaitListener == [kind |-> "wait"]
KeyListener == [kind |-> "key"]

NoEntry == [t |-> "none"]
UnobsEntry(id, deep) == [t |-> "unobs", id |-> id, deep |-> deep]
WaiterEntry == [t |-> "waiter"]

ListenerIds(ls) ==
    {ls[i].id : i \in {j \in 1..Len(ls) : ls[j].kind = "row"}}

FreshId(m, k) ==
    LET used == ListenerIds(m.eh[k]) \cup ListenerIds(m.deh[k])
                \cup ListenerIds(m.iter)
    IN CHOOSE n \in 0..(Cardinality(used)) :
          n \notin used /\ \A j \in 0..(n - 1) : j \in used

\* type.observe(f) / type.observeDeep(f): eventHandler.l.push(f)
Observe(m, which, k, l) ==
    LET m1 == [m EXCEPT ![which][k] = Append(@, l)]
    IN IF m.cur = <<which, k>> /\ m.live
       THEN [m1 EXCEPT !.iter = Append(@, l)]
       ELSE m1

\* type.unobserve(f): eventHandler.l = eventHandler.l.filter(g => f !== g)
Unobserve(m, which, k, id) ==
    LET keep(l) == ~(l.kind = "row" /\ l.id = id)
        m1 == [m EXCEPT ![which][k] = SelectSeq(@, keep)]
    IN IF m.cur = <<which, k>> THEN [m1 EXCEPT !.live = FALSE] ELSE m1

Call(a, r, c, vis) == [added |-> a, removed |-> r, changed |-> c, vis |-> vis]

\* Variant: rows are observed at every level.
watchContent_AnyLevel(level) == level \in Levels

watchContent(level) == level \in {"content", "deep"}
watchDeep(level) == level = "deep"

\* observeRow: attach rowWatcher and remember how to detach it.
observeRow(c, m, k) ==
    LET id == FreshId(m, k)
        m1 == Observe(m, IF watchDeep(c.level) THEN "deh" ELSE "eh", k,
                      RowListener(id))
    IN [m1 EXCEPT !.unobs[k] = UnobsEntry(id, watchDeep(c.level))]

\* Variant: the query is not consulted before a row is admitted.
addRow_SkipsQuery(c, m, k) ==
    LET data == readDataPresent(c.rows, c.nested, k)
    IN IF data # Null
       THEN [m |-> [m EXCEPT !.vis[k] = data],
             added |-> <<data>>, removedKeys |-> <<>>]
       ELSE [m |-> m, added |-> <<>>, removedKeys |-> <<>>]

\* One iteration of the loop of addRows.
addRow(c, m, k) ==
    IF ~Query(c.query, c.rows[k])
    THEN [m |-> m, added |-> <<>>, removedKeys |-> <<k>>]
    ELSE LET data == readDataPresent(c.rows, c.nested, k)
         IN IF data # Null
            THEN LET m1 == [m EXCEPT !.vis[k] = data]
                 IN [m |-> IF watchContent(c.level)
                           THEN observeRow(c, m1, k) ELSE m1,
                     added |-> <<data>>, removedKeys |-> <<>>]
            ELSE \* row.observeDeep(rowWatcher);
                 \* rowUnobservers.set(key, rowWatcher)
                 [m |-> [Observe(m, "deh", k, WaitListener)
                           EXCEPT !.unobs[k] = WaiterEntry],
                  added |-> <<>>, removedKeys |-> <<>>]

\* The results of addRows: added.push(data) and removedKeys.push(key) of
\* one iteration r1, followed by those of the later iterations r2.
addRowsResult(r1, r2) ==
    [m |-> r2.m, added |-> r1.added \o r2.added,
     removedKeys |-> r1.removedKeys \o r2.removedKeys]

RECURSIVE addRows(_, _, _)
addRowsRest(c, r1, ks) == addRowsResult(r1, addRows(c, r1.m, ks))

addRows(c, m, ks) ==
    IF ks = <<>> THEN [m |-> m, added |-> <<>>, removedKeys |-> <<>>]
    ELSE addRowsRest(c, addRow(c, m, Head(ks)), Tail(ks))

\* The wait-until-valid rowWatcher of addRows: the result of the inner
\* addRows([key]) is not used.
waitWatcher(c, m, k) ==
    IF readDataPresent(c.rows, c.nested, k) # Null
    THEN addRows(c, m, <<k>>).m
    ELSE m

\* Calling the function stored in rowUnobservers for k, if there is one.
callUnobserver(c, m, k) ==
    CASE m.unobs[k].t = "none" -> m
      [] m.unobs[k].t = "unobs" ->
            Unobserve(m, IF m.unobs[k].deep THEN "deh" ELSE "eh", k,
                      m.unobs[k].id)
      [] m.unobs[k].t = "waiter" -> waitWatcher(c, m, k)

\* Variant: the row is reported as removed and stays in visibleData.
rowWatcherRemoved_KeepsRow(m1, k) ==
    LET data == m1.vis[k]
    IN IF data # Null
       THEN [m1 EXCEPT !.calls =
                Append(@, Call(<<>>, <<data>>, <<>>, m1.vis))]
       ELSE m1

\* rowWatcher, the row no longer matches, after the unobserver has run
\* (m1): report the row as removed if it was visible.
rowWatcherRemoved(m1, k) ==
    LET data == m1.vis[k]
    IN IF data # Null
       THEN LET m2 == [m1 EXCEPT !.vis[k] = Null]
            IN [m2 EXCEPT !.calls =
                   Append(@, Call(<<>>, <<data>>, <<>>, m2.vis))]
       ELSE m1

\* Variant: a row that does not validate is reported with its last
\* validated value.
rowWatcherChanged_ReportsStale(c, m, k) ==
    LET data == readDataPresent(c.rows, c.nested, k)
    IN IF data # Null
       THEN LET m1 == [m EXCEPT !.vis[k] = data]
            IN [m1 EXCEPT !.calls =
                   Append(@, Call(<<>>, <<>>, <<data>>, m1.vis))]
       ELSE [m EXCEPT !.calls =
                Append(@, Call(<<>>, <<>>, <<m.vis[k]>>, m.vis))]

\* rowWatcher, the row still matches: report it as changed if it is valid.
rowWatcherChanged(c, m, k) ==
    LET data == readDataPresent(c.rows, c.nested, k)
    IN IF data # Null
       THEN LET m1 == [m EXCEPT !.vis[k] = data]
            IN [m1 EXCEPT !.calls =
                   Append(@, Call(<<>>, <<>>, <<data>>, m1.vis))]
       ELSE m

\* The rowWatcher of observeRow.
rowWatcher(c, m, k) ==
    IF ~Query(c.query, c.rows[k])
    THEN rowWatcherRemoved(callUnobserver(c, m, k), k)
    ELSE rowWatcherChanged(c, m, k)

\* The loop of handler over removed and no-longer-matching keys.
\* removed.push(data) of one iteration, before those of the later ones r.
purgeResult(data, r) ==
    [m |-> r.m,
     removed |-> (IF data # Null THEN <<data>> ELSE <<>>) \o r.removed]

\* visibleData.delete(key)
purgeDelete(m, k) ==
    IF m.vis[k] # Null THEN [m EXCEPT !.vis[k] = Null] ELSE m

RECURSIVE purge(_, _, _)
purge(c, m, ks) ==
    IF ks = <<>> THEN [m |-> m, removed |-> <<>>]
    ELSE purgeResult(m.vis[Head(ks)],
                     purge(c, callUnobserver(c, purgeDelete(m, Head(ks)),
                                             Head(ks)),
                           Tail(ks)))

\* handler: the callback watch() passes to observeKeys.
\* Variant: the watcher is notified whether or not there is a delta.
handlerNotify_Always(a, p) ==
    [p.m EXCEPT !.calls =
        Append(@, Call(a.added, p.removed, <<>>, p.m.vis))]

\* The end of handler: one callback if anything was added or removed.
handlerNotify(a, p) ==
    IF a.added # <<>> \/ p.removed # <<>>
    THEN [p.m EXCEPT !.calls =
             Append(@, Call(a.added, p.removed, <<>>, p.m.vis))]
    ELSE p.m

\* Variant: the keys just admitted are purged as well.
handlerPurge_PurgesAdded(c, a, removedKeys) ==
    handlerNotify(a, purge(c, a.m,
        removedKeys \o a.removedKeys
            \o [i \in 1..Len(a.added) |-> a.added[i].key]))

\* handler after addRows (a): the rows of the removed keys and of the keys
\* that did not match are purged.
handlerPurge(c, a, removedKeys) ==
    handlerNotify(a, purge(c, a.m, removedKeys \o a.removedKeys))

handler(c, m, addedKeys, removedKeys) ==
    handlerPurge(c, addRows(c, m, addedKeys), removedKeys)

\* watchKey: watcher(data)
keyWatcher(m, data) == [m EXCEPT !.kcalls = Append(@, data)]

\* watchKey.observeRow: attach rowWatcher to the row container and set
\* unobserveRow.
observeKeyRow(m, k) ==
    [Observe(m, IF watchDeep(m.wk.level) THEN "deh" ELSE "eh", k, KeyListener)
        EXCEPT !.wk.observed = TRUE]

\* watchKey.observeRow.rowWatcher: the row is read without consulting the
\* index and reported if it validates.
keyRowWatcher(c, m, k) ==
    IF readDataPresent(c.rows, c.nested, k) # Null
    THEN keyWatcher(m, readDataPresent(c.rows, c.nested, k))
    ELSE m

\* The callback watchKey passes to observeKeys, added.includes(key).
watchKeyAdded(c, m, k) ==
    LET m1 == IF readDataPresent(c.rows, c.nested, k) # Null
              THEN keyWatcher(m, readDataPresent(c.rows, c.nested, k))
              ELSE m
    IN IF ~m1.wk.observed THEN observeKeyRow(m1, k) ELSE m1

\* Variant: the deletion of the key is not reported.
watchKeyHandler_IgnoresDelete(c, m, k, action) ==
    CASE k # m.wk.key -> m
      [] action = "add" -> watchKeyAdded(c, m, k)
      [] OTHER -> m

\* The callback watchKey passes to observeKeys.
watchKeyHandler(c, m, k, action) ==
    CASE k # m.wk.key -> m
      [] action = "add" -> watchKeyAdded(c, m, k)
      [] action = "delete" -> keyWatcher(m, Null)
      [] OTHER -> m

\* callAll(eventHandler.l, ...): run the listeners of the array in turn.
runListener(c, m, l, k) ==
    CASE l.kind = "row" -> rowWatcher(c, m, k)
      [] l.kind = "wait" -> waitWatcher(c, m, k)
      [] l.kind = "key" -> keyRowWatcher(c, m, k)

RECURSIVE callAll(_, _, _, _)
callAll(c, m, k, i) ==
    IF i > Len(m.iter) THEN m
    ELSE callAll(c, runListener(c, m, m.iter[i], k), k, i + 1)

callEventHandlerListeners(c, m, which, k) ==
    [callAll(c, [m EXCEPT !.cur = <<which, k>>, !.iter = m[which][k],
                          !.live = TRUE], k, 1)
        EXCEPT !.cur = <<>>, !.iter = <<>>, !.live = FALSE]

\* Variant: an 'update' of an index entry is forwarded as an added key.
observeKeysHandler_UpdateAsAdd(c, m, k, action) ==
    CASE action \in {"add", "update"} -> handler(c, m, <<k>>, <<>>)
      [] action = "delete" -> handler(c, m, <<>>, <<k>>)
      [] OTHER -> m

\* observeKeys: the index listener forwards only 'add' and 'delete'.
observeKeysHandler(c, m, k, action) ==
    CASE action = "add" -> handler(c, m, <<k>>, <<>>)
      [] action = "delete" -> handler(c, m, <<>>, <<k>>)
      [] OTHER -> m

Attached(ls, l) == \E i \in 1..Len(ls) : ls[i] = l

\* Transaction cleanup: observers of the changed types in the order of
\* their first change (row container before the index), then the deep
\* observers of the same types.  Sub-containers are root types of their
\* own: a change of T.k.nested or T.k.rawMap is not an event of T.k.
callObservers(c, m, which, k, changed) ==
    IF changed THEN callEventHandlerListeners(c, m, which, k) ELSE m

\* The listeners of the index run in the order they were attached.
runIndexListener(c, m, l, k, action) ==
    CASE l = "watch" -> observeKeysHandler(c, m, k, action)
      [] l = "watchKey" -> watchKeyHandler(c, m, k, action)

RECURSIVE callIndexListeners(_, _, _, _, _)
callIndexListeners(c, m, k, action, i) ==
    IF i > Len(c.tbl) THEN m
    ELSE callIndexListeners(c, runIndexListener(c, m, c.tbl[i], k, action),
                            k, action, i + 1)

callIndexObservers(c, m, k, action) ==
    IF action # "none" THEN callIndexListeners(c, m, k, action, 1) ELSE m

cleanupTransaction(c, m, k, rowChanged, action) ==
    callObservers(c,
        callIndexObservers(c, callObservers(c, m, "eh", k, rowChanged),
                           k, action),
        "deh", k, rowChanged)

----------------------------------------------------------------------------
(* State machine.                                                          *)

Machine ==
    [vis |-> visibleData, unobs |-> rowUnobservers, eh |-> eh, deh |-> deh,
     calls |-> <<>>, cur |-> <<>>, iter |-> <<>>, live |-> FALSE,
     wk |-> wk, kcalls |-> <<>>, told |-> told]

Ctx(rws, nvs) ==
    [level |-> sub.level, query |-> sub.query, rows |-> rws, nested |-> nvs,
     tbl |-> tbl]

\* What a subscriber that mirrors the deltas does with one invocation.
RECURSIVE PutAll(_, _)
PutAll(mp, rs) ==
    IF rs = <<>> THEN mp
    ELSE PutAll([mp EXCEPT ![Head(rs).key] = Head(rs)], Tail(rs))

RECURSIVE DelAll(_, _)
DelAll(mp, rs) ==
    IF rs = <<>> THEN mp
    ELSE DelAll([mp EXCEPT ![Head(rs).key] = Null], Tail(rs))

RECURSIVE ApplyCalls(_, _)
ApplyCalls(mp, cs) ==
    IF cs = <<>> THEN mp
    ELSE ApplyCalls(DelAll(PutAll(PutAll(mp, Head(cs).added),
                                  Head(cs).changed), Head(cs).removed),
                    Tail(cs))

\* The keys a watcher holds after the invocations cs when it held t: it
\* takes in the keys of `added` and drops those of `removed`.
RECURSIVE Told(_, _)
Told(t, cs) ==
    IF cs = <<>> THEN t
    ELSE Told((t \cup {Head(cs).added[i].key : i \in 1..Len(Head(cs).added)})
                 \ {Head(cs).removed[i].key : i \in 1..Len(Head(cs).removed)},
              Tail(cs))

WithinCap(m) == \A k \in Keys : Len(m.eh[k]) + Len(m.deh[k]) <= MaxObs

\* The state after the observers of a transaction have run.
Commit(m) ==
    /\ WithinCap(m)
    /\ visibleData' = m.vis
    /\ rowUnobservers' = m.unobs
    /\ eh' = m.eh
    /\ deh' = m.deh
    /\ calls' = m.calls
    /\ wk' = m.wk
    /\ kcalls' = m.kcalls
    /\ told' = IF m.told.on
               THEN [m.told EXCEPT !.keys = Told(@, m.calls)]
               ELSE m.told
    /\ UNCHANGED schemaVars

InOrder(k) == \E i \in 1..Len(indexOrder) : indexOrder[i] = k

\* Y.Map.set on the index: 'add' when the key is absent, else 'update'.
SetAction(k) == IF k \in index THEN "update" ELSE "add"

\* What the index held for k before a set: a live entry, a deleted entry
\* (the key was removed earlier), or nothing.
Was(k) ==
    IF k \in index THEN "present"
    ELSE IF InOrder(k) THEN "removed" ELSE "new"

\* Table V has the fields key, simple (a string) and x, whose schema node
\* is one of Nodes.  A value of x is held as a function over ValFields:
\* a primitive has `prim`, a record or a union variant its fields, a raw
\* Yjs type `handle`.
ValFields == {"prim", "type", "content", "value", "key", "handle"}
SubFields == {"type", "content", "value", "key"}
Val(r) == [f \in ValFields |-> IF f \in DOMAIN r THEN r[f] ELSE Undef]
NoVal == [f \in ValFields |-> Undef]
Nodes ==
    [kind : {"primitive", "record", "union", "raw"},
     syncAs : {"none", "map", "other"}, shallow : BOOLEAN]

\* Everything but the schema node of table V.
InitBase ==
    /\ index = {}
    /\ indexOrder = <<>>
    /\ rowMap = [k \in Keys |-> [foo |-> Undef, bar |-> Undef, opt |-> Undef]]
    /\ nestedMap = [k \in Keys |-> Undef]
    /\ rawMap = [k \in Keys |-> FALSE]
    /\ eh = [k \in Keys |-> <<>>]
    /\ deh = [k \in Keys |-> <<>>]
    /\ tbl = <<>>
    /\ sub = [status |-> "none", level |-> "keys", query |-> any]
    /\ visibleData = [k \in Keys |-> Null]
    /\ rowUnobservers = [k \in Keys |-> NoEntry]
    /\ calls = <<>>
    /\ wk = [status |-> "none", level |-> "keys", key |-> "k1",
             observed |-> FALSE]
    /\ kcalls = <<>>
    /\ told = [on |-> FALSE, keys |-> {}]
    /\ vrow = [key |-> Undef, simple |-> Undef, x |-> NoVal]
    /\ vsub = [f \in SubFields |-> Undef]
    /\ vindex = FALSE
    /\ op = [name |-> "init"]

Init ==
    /\ InitBase
    /\ node = [kind |-> "union", syncAs |-> "none", shallow |-> FALSE]

\* table.type.parse(row) returns: every required field of the row has a
\* value of its type.
\* Variant: every row is accepted.
parses_Anything(row) == TRUE

parses(row) ==
    /\ row.foo \in Bools
    /\ row.bar \in Strs
    /\ row.nested # Omitted
    /\ row.nested.value \in Strs

\* Variant: the observers run on the containers as they were before the
\* fields of the row were written.
Upsert_ObserversBeforeWrite(k, row) ==
    /\ parses(row)
    /\ rowMap' = [rowMap EXCEPT ![k] = WriteRow(@, row)]
    /\ nestedMap' = [nestedMap EXCEPT ![k] = WriteNested(@, row)]
    /\ index' = index \cup {k}
    /\ indexOrder' = IF InOrder(k) THEN indexOrder ELSE Append(indexOrder, k)
    /\ Commit(cleanupTransaction(Ctx(rowMap, nestedMap), Machine, k,
                                 TRUE, SetAction(k)))
    /\ rawMap' = [rawMap EXCEPT ![k] = WriteRaw(@, row)]
    /\ op' = [name |-> "upsert", key |-> k, row |-> row, was |-> Was(k)]
    /\ UNCHANGED <<tbl, sub>>

\* upsert(doc, T, row): writeData(..., table.type.parse(row), true)
Upsert(k, row) ==
    /\ parses(row)
    /\ rowMap' = [rowMap EXCEPT ![k] = WriteRow(@, row)]
    /\ nestedMap' = [nestedMap EXCEPT ![k] = WriteNested(@, row)]
    /\ index' = index \cup {k}
    /\ indexOrder' = IF InOrder(k) THEN indexOrder ELSE Append(indexOrder, k)
    /\ Commit(cleanupTransaction(Ctx(rowMap', nestedMap'), Machine, k,
                                 TRUE, SetAction(k)))
    /\ rawMap' = [rawMap EXCEPT ![k] = WriteRaw(@, row)]
    /\ op' = [name |-> "upsert", key |-> k, row |-> row, was |-> Was(k)]
    /\ UNCHANGED <<tbl, sub>>

\* upsert(doc, T, row) when table.type.parse(row) throws: writeData is
\* not reached.
UpsertThrows(k, row) ==
    /\ ~parses(row)
    /\ calls' = <<>>
    /\ kcalls' = <<>>
    /\ op' = [name |-> "upsertThrows", key |-> k]
    /\ UNCHANGED <<docVars, obsVars, subVars, wk, told, schemaVars>>

\* update(doc, T, partial): writeData(..., update, false)
Update(k, data) ==
    /\ rowMap' = [rowMap EXCEPT ![k] = WriteRow(@, data)]
    /\ nestedMap' = [nestedMap EXCEPT ![k] = WriteNested(@, data)]
    /\ Commit(cleanupTransaction(Ctx(rowMap', nestedMap'), Machine, k,
                                 RowTouched(data), "none"))
    /\ op' = [name |-> "update", key |-> k,
              inline |-> (\/ data.foo # Undef \/ data.bar # Undef
                          \/ Field(data, "opt") # Undef),
              sub |-> (data.nested # Omitted /\ data.nested # [value |-> Undef])]
    /\ rawMap' = [rawMap EXCEPT ![k] = WriteRaw(@, data)]
    /\ UNCHANGED <<index, indexOrder, tbl, sub>>

\* remove(doc, T, key): rows.delete(key); no event when the key is absent.
Remove(k) ==
    /\ index' = index \ {k}
    /\ Commit(cleanupTransaction(Ctx(rowMap, nestedMap), Machine, k, FALSE,
                                 IF k \in index THEN "delete" ELSE "none"))
    /\ op' = [name |-> "remove", key |-> k]
    /\ UNCHANGED <<indexOrder, rowMap, nestedMap, rawMap, tbl, sub>>

\* Partial replication or a direct write: the index entry of k is set in a
\* transaction of its own, whatever the row container holds.
IndexSet(k) ==
    /\ index' = index \cup {k}
    /\ indexOrder' = IF InOrder(k) THEN indexOrder ELSE Append(indexOrder, k)
    /\ Commit(cleanupTransaction(Ctx(rowMap, nestedMap), Machine, k, FALSE,
                                 SetAction(k)))
    /\ op' = [name |-> "indexSet", key |-> k, was |-> Was(k)]
    /\ UNCHANGED <<rowMap, nestedMap, rawMap, tbl, sub>>

\* A direct write on a raw container handed out by a read:
\* row.rawMap.set('foo', 'bar').  T.k.rawMap is a root type.
RawSet(k) ==
    /\ rawMap' = [rawMap EXCEPT ![k] = TRUE]
    /\ Commit(cleanupTransaction(Ctx(rowMap, nestedMap), Machine, k, FALSE,
                                 "none"))
    /\ op' = [name |-> "rawSet", key |-> k]
    /\ UNCHANGED <<index, indexOrder, rowMap, nestedMap, tbl, sub>>

\* Partial replication or a direct write: the inline field bar of the row
\* container of k is deleted, doc.getMap('T.k').delete('bar'), while the
\* rest of the remote transaction has not arrived.
RowDelete(k) ==
    /\ rowMap[k].bar # Undef
    /\ rowMap' = [rowMap EXCEPT ![k].bar = Undef]
    /\ Commit(cleanupTransaction(Ctx(rowMap', nestedMap), Machine, k, TRUE,
                                 "none"))
    /\ op' = [name |-> "rowDelete", key |-> k]
    /\ UNCHANGED <<index, indexOrder, nestedMap, rawMap, tbl, sub>>

\* The seeding call of watch: made only if there are initial rows.
watchSeed(r) ==
    IF r.added # <<>>
    THEN [r.m EXCEPT !.calls = Append(@, Call(r.added, <<>>, <<>>, r.m.vis))]
    ELSE r.m

\* watch(doc, T, query, level, watcher)
Watch(level, query) ==
    /\ sub.status = "none"
    /\ sub' = [status |-> "active", level |-> level, query |-> query]
    /\ tbl' = Append(tbl, "watch")
    /\ Commit(watchSeed(addRows([level |-> level, query |-> query,
                                  rows |-> rowMap, nested |-> nestedMap,
                                  tbl |-> tbl'],
                                 Machine, allKeys(index, indexOrder))))
    /\ op' = [name |-> "watch"]
    /\ UNCHANGED docVars

\* watch(doc, T, query, level, watcher) with a watcher that keeps the keys
\* it is given.
WatchMirrored(level, query) ==
    /\ sub.status = "none"
    /\ sub' = [status |-> "active", level |-> level, query |-> query]
    /\ tbl' = Append(tbl, "watch")
    /\ Commit(watchSeed(addRows([level |-> level, query |-> query,
                                  rows |-> rowMap, nested |-> nestedMap,
                                  tbl |-> tbl'],
                                 [Machine EXCEPT !.told.on = TRUE],
                                 allKeys(index, indexOrder))))
    /\ op' = [name |-> "watch"]
    /\ UNCHANGED docVars

\* The function watch() returns:
\* unobserveTable(); rowUnobservers.forEach((func) => void func())
RECURSIVE callUnobservers(_, _, _)
callUnobservers(c, m, ks) ==
    IF ks = <<>> THEN m
    ELSE callUnobservers(c, callUnobserver(c, m, Head(ks)), Tail(ks))

Unwatch ==
    /\ sub.status \in {"active", "unwatched"}
    /\ sub' = [sub EXCEPT !.status = "unwatched"]
    /\ tbl' = SelectSeq(tbl, LAMBDA l : l # "watch")
    /\ Commit(callUnobservers(Ctx(rowMap, nestedMap), Machine, <<"k1", "k2">>))
    /\ op' = [name |-> "unwatch"]
    /\ UNCHANGED docVars

\* watchKey(doc, T, key, level, watcher)
WatchKey(level, key) ==
    /\ wk.status = "none"
    /\ tbl' = Append(tbl, "watchKey")
    /\ Commit(keyWatcher(
           IF watchContent(level)
           THEN observeKeyRow([Machine EXCEPT !.wk =
                    [status |-> "active", level |-> level, key |-> key,
                     observed |-> FALSE]], key)
           ELSE [Machine EXCEPT !.wk =
                    [status |-> "active", level |-> level, key |-> key,
                     observed |-> FALSE]],
           readData(index, rowMap, nestedMap, key)))
    /\ op' = [name |-> "watchKey"]
    /\ UNCHANGED <<docVars, sub>>

\* row.unobserve(rowWatcher) / row.unobserveDeep(rowWatcher)
unobserveKeyRow(m) ==
    IF m.wk.observed
    THEN [m EXCEPT ![IF watchDeep(m.wk.level) THEN "deh" ELSE "eh"][m.wk.key] =
             SelectSeq(@, LAMBDA l : l # KeyListener)]
    ELSE m

\* The function watchKey() returns: unobserveKeys(); unobserveRow()
UnwatchKey ==
    /\ wk.status = "active"
    /\ tbl' = SelectSeq(tbl, LAMBDA l : l # "watchKey")
    /\ Commit(unobserveKeyRow([Machine EXCEPT !.wk.status = "unwatched"]))
    /\ op' = [name |-> "unwatchKey"]
    /\ UNCHANGED <<docVars, sub>>

\* The keys the operations of Spec are applied to.
MainKeys == {"k1"}

Next ==
    \/ \E k \in MainKeys, row \in FullRows : Upsert(k, row)
    \/ \E k \in MainKeys, data \in Partials : Update(k, data)
    \/ \E k \in MainKeys : Remove(k)
    \/ \E k \in MainKeys : IndexSet(k)
    \/ \E k \in MainKeys : RawSet(k)
    \/ \E level \in Levels, query \in WatchQueries : Watch(level, query)
    \/ Unwatch

Spec == Init /\ [][Next]_vars

----------------------------------------------------------------------------
(* Vocabulary of the properties.                                           *)

RECURSIVE AddedRows(_)
AddedRows(cs) ==
    IF cs = <<>> THEN <<>> ELSE Head(cs).added \o AddedRows(Tail(cs))

RECURSIVE RemovedRows(_)
RemovedRows(cs) ==
    IF cs = <<>> THEN <<>> ELSE Head(cs).removed \o RemovedRows(Tail(cs))

RECURSIVE ChangedRows(_)
ChangedRows(cs) ==
    IF cs = <<>> THEN <<>> ELSE Head(cs).changed \o ChangedRows(Tail(cs))

HasKind(ls, kind) == \E i \in 1..Len(ls) : ls[i].kind = kind

\* A wait-until-valid observer is attached to the row container of k.
WaiterAttached(d, k) == HasKind(d[k], "wait")

\* A rowWatcher of observeRow is attached to the row container of k.
RowObserved(e, d, k) == HasKind(e[k], "row") \/ HasKind(d[k], "row")

Active == sub.status = "active"

\* k is in the index, its shallow container passes the filter, its full
\* read fails, and the subscription holds it as not yet admitted.
PendingKey(k) ==
    /\ k \in index
    /\ Query(sub.query, rowMap[k])
    /\ readDataPresent(rowMap, nestedMap, k) = Null
    /\ visibleData[k] = Null
    /\ WaiterAttached(deh, k)

\* The step is a mutation of the document by one of the write operations.
MutationStep ==
    op'.name \in {"upsert", "update", "remove", "indexSet", "rawSet"}

----------------------------------------------------------------------------
\* C1: a key that is pending (in the index, filter true, full read
\* invalid) is not emitted; when a later mutation makes the row validate,
\* with the key still in the index and the filter still true, the watcher
\* is invoked with that row in `added` exactly once and the
\* wait-until-valid observer is detached from the row container.
C1_DeferredAdmission ==
    [][\A k \in Keys :
         (Active /\ PendingKey(k) /\ MutationStep) =>
            IF readDataPresent(rowMap', nestedMap', k) = Null
            THEN calls' = <<>>
            ELSE (k \in index' /\ Query(sub.query, rowMap'[k])) =>
                    /\ AddedRows(calls') =
                          <<readDataPresent(rowMap', nestedMap', k)>>
                    /\ ~WaiterAttached(deh', k)]_vars

\* C2: a mirror built from the deltas alone (insert added, replace
\* changed, delete removed) equals visibleData between operations; stated
\* stepwise: applying the deltas of an operation to the visibleData before
\* it (the empty map before the subscription exists) gives the visibleData
\* after it.
C2_DeltaFaithful ==
    [][sub'.status = "active" =>
          ApplyCalls(IF Active THEN visibleData ELSE [k \in Keys |-> Null], calls')
             = visibleData']_vars

----------------------------------------------------------------------------
(* A second specification for what involves several rows at once: both     *)
(* keys, fewer payloads, and both queries of the tests.                    *)

SeedRows ==
    {r \in FullRows : r.bar = "a" /\ r.nested = [value |-> "a"]}
SeedPartials ==
    {p \in Partials : p.foo = "true" /\ p.bar = Undef /\ p.nested = Omitted}

NextSeed ==
    \/ \E k \in Keys, row \in SeedRows : Upsert(k, row)
    \/ \E k \in Keys, data \in SeedPartials : Update(k, data)
    \/ \E k \in Keys : Remove(k)
    \/ \E k \in Keys : IndexSet(k)
    \/ \E level \in Levels, query \in {any, eq("foo", "true")} : Watch(level, query)

SpecSeed == Init /\ [][NextSeed]_vars

----------------------------------------------------------------------------
----------------------------------------------------------------------------
\* The row of k is visible to the subscription, logically present, valid
\* and matching.
VisibleValid(k) ==
    /\ visibleData[k] # Null
    /\ k \in index
    /\ Query(sub.query, rowMap[k])
    /\ readDataPresent(rowMap, nestedMap, k) # Null

\* C4: at level 'content' or 'deep', an update() that makes the filter of
\* a visible row false produces one callback with the row, as last
\* validated, in `removed` and nothing in `added` or `changed`; the row
\* leaves visibleData and no row observer stays on its container.
C4_TransitionOutOfFilter ==
    [][\A k \in Keys :
         (/\ Active
          /\ watchContent(sub.level)
          /\ visibleData[k] # Null
          /\ Query(sub.query, rowMap[k])
          /\ op'.name = "update" /\ op'.key = k
          /\ ~Query(sub.query, rowMap'[k]))
         => /\ calls' = <<Call(<<>>, <<visibleData[k]>>, <<>>, visibleData')>>
            /\ visibleData'[k] = Null
            /\ ~RowObserved(eh', deh', k)]_vars

RowsAgree(rs, vis) == \A i \in 1..Len(rs) : vis[rs[i].key] = rs[i]
RowsAbsent(rs, vis) == \A i \in 1..Len(rs) : vis[rs[i].key] = Null

\* C5: when the watcher is invoked, visibleData maps the key of every row
\* of `added` and `changed` to that row and holds no key of `removed`;
\* the same is true of visibleData once the handlers of the event are done.
C5_VisibleDataUpToDate ==
    /\ \A i \in 1..Len(calls) :
          /\ RowsAgree(calls[i].added, calls[i].vis)
          /\ RowsAgree(calls[i].changed, calls[i].vis)
          /\ RowsAbsent(calls[i].removed, calls[i].vis)
    /\ calls # <<>> =>
          /\ RowsAgree(calls[Len(calls)].added, visibleData)
          /\ RowsAgree(calls[Len(calls)].changed, visibleData)
          /\ RowsAbsent(calls[Len(calls)].removed, visibleData)

\* C6: the unwatch function invokes no callback, and once it has returned
\* no operation invokes the callback.
C6_UnsubscribeStops ==
    sub.status = "unwatched" => calls = <<>>

\* C7: a second call of the unwatch function of watch() changes neither
\* the attached observers, nor visibleData, nor the document, and invokes
\* no callback.
C7_UnwatchIdempotent ==
    [][(op.name = "unwatch" /\ op'.name = "unwatch") =>
          /\ eh' = eh /\ deh' = deh /\ tbl' = tbl
          /\ visibleData' = visibleData
          /\ docVars' = docVars
          /\ calls' = <<>>]_vars

\* The operation changed exactly the inline field bar of k.
BarChanged(k) ==
    /\ rowMap'[k].foo = rowMap[k].foo
    /\ rowMap'[k].bar # rowMap[k].bar
    /\ nestedMap' = nestedMap

\* C8: one update() that changes one inline field of a visible, valid row
\* whose filter stays true gives no `changed` row at level 'keys' and
\* exactly one, the new validated row, at levels 'content' and 'deep'.
C8_InlineChangeLevels ==
    [][\A k \in Keys :
         (/\ Active
          /\ VisibleValid(k)
          /\ op'.name = "update" /\ op'.key = k
          /\ BarChanged(k)
          /\ Query(sub.query, rowMap'[k]))
         => ChangedRows(calls') =
               IF sub.level = "keys" THEN <<>>
               ELSE <<readDataPresent(rowMap', nestedMap', k)>>]_vars

\* The operation mutates only a sub-container of the row of k: a field of
\* the nested record at T.k.nested, or the raw container at T.k.rawMap.
SubContainerOnly(k) ==
    \/ op'.name = "update" /\ op'.key = k /\ ~op'.inline /\ op'.sub
    \/ op'.name = "rawSet" /\ op'.key = k

C10_DeepSeesSubContainers ==
    [][\A k \in Keys :
         (Active /\ sub.level = "deep" /\ VisibleValid(k)
          /\ SubContainerOnly(k))
         => Len(ChangedRows(calls')) = 1]_vars

----------------------------------------------------------------------------
\* C11: at level 'content', an update() that changes a field of the nested
\* record of a visible row gives exactly one `changed` row, carrying the
\* new nested value.
C11_ContentSeesNestedRecord ==
    [][\A k \in Keys :
         (/\ Active /\ sub.level = "content" /\ VisibleValid(k)
          /\ op'.name = "update" /\ op'.key = k /\ ~op'.inline /\ op'.sub
          /\ nestedMap'[k] # nestedMap[k])
         => ChangedRows(calls') =
               <<readDataPresent(rowMap', nestedMap', k)>>]_vars

C13_KeyDisappearance ==
    [][\A k \in Keys :
         (Active /\ op'.name = "remove" /\ op'.key = k /\ k \in index) =>
            IF visibleData[k] # Null
            THEN /\ calls' = <<Call(<<>>, <<visibleData[k]>>, <<>>,
                                    visibleData')>>
                 /\ visibleData'[k] = Null
                 /\ ~RowObserved(eh', deh', k)
            ELSE calls' = <<>>]_vars

\* The last operation admitted k to the running subscription: it put the
\* key into the index, or it was the watch() that seeded the subscription.
JustAdmitted(k) ==
    \/ op.name \in {"upsert", "indexSet"} /\ op.key = k /\ op.was # "present"
    \/ op.name = "watch"

\* C14: a row in the index that did not match the filter when its key was
\* admitted, hence is not visible, and that an update() or a repeated
\* upsert() then makes match, invokes no callback and stays out of
\* visibleData.
C14_NoLateAdmission ==
    [][\A k \in Keys :
         (/\ Active /\ JustAdmitted(k)
          /\ k \in index
          /\ ~Query(sub.query, rowMap[k])
          /\ visibleData[k] = Null
          /\ op'.name \in {"update", "upsert"} /\ op'.key = k
          /\ Query(sub.query, rowMap'[k]))
         => calls' = <<>> /\ visibleData'[k] = Null]_vars

\* The values that satisfy the schema of the table.
ValidRows ==
    [key : Keys, foo : Bools, bar : Strs, nested : [value : Strs]]
    \cup [key : Keys, foo : Bools, bar : Strs, opt : Strs,
          nested : [value : Strs]]

RowsValid(rs) == \A i \in 1..Len(rs) : rs[i] \in ValidRows

\* Every row of rs is the validated read of its key from the document.
RowsRead(rs) ==
    \A i \in 1..Len(rs) :
        rs[i] = readDataPresent(rowMap, nestedMap, rs[i].key)

\* C15: every row passed in `added` or `changed` satisfies the schema and
\* is the validated read of the document when it is delivered; every value
\* held in visibleData satisfies the schema; getKey and select return only
\* rows that satisfy it.
C15_OnlyValidRows ==
    /\ \A i \in 1..Len(calls) :
          /\ RowsValid(calls[i].added) /\ RowsRead(calls[i].added)
          /\ RowsValid(calls[i].changed) /\ RowsRead(calls[i].changed)
    /\ \A k \in Keys :
          /\ visibleData[k] # Null => visibleData[k] \in ValidRows
          /\ getKey(k) # Null => getKey(k) \in ValidRows
    /\ RowsValid(select(any))

\* A key whose row container passes the filter but fails validation was
\* just put into the index of a watched table: nothing was delivered and
\* the reads omit the row.
C15_Witness ==
    /\ Active
    /\ op.name = "indexSet" /\ op.was # "present"
    /\ Query(sub.query, rowMap[op.key])
    /\ readDataPresent(rowMap, nestedMap, op.key) = Null
    /\ getKey(op.key) = Null
    /\ select(any) = <<>>
    /\ visibleData[op.key] = Null
    /\ calls = <<>>

----------------------------------------------------------------------------
(* A third specification, for transactions that touch two keys.            *)

\* observeKeys.handler for an event of the index that carries several
\* keys: the added and the deleted keys reach handler in one call.
observeKeysEvent(c, m, addedKeys, removedKeys) ==
    IF Attached(c.tbl, "watch") /\ (addedKeys # <<>> \/ removedKeys # <<>>)
    THEN handler(c, m, addedKeys, removedKeys) ELSE m

\* Cleanup of a transaction that changed the index first and the row
\* container of k afterwards.
cleanupIndexFirst(c, m, k, addedKeys, removedKeys) ==
    callObservers(c,
        callObservers(c, observeKeysEvent(c, m, addedKeys, removedKeys),
                      "eh", k, TRUE),
        "deh", k, TRUE)

\* doc.transact(() => { remove(doc, T, k1); upsert(doc, T, row) }) with
\* row.key = k2: one transaction, one event of the index.
RemoveUpsert(k1, k2, row) ==
    /\ k1 # k2
    /\ rowMap' = [rowMap EXCEPT ![k2] = WriteRow(@, row)]
    /\ nestedMap' = [nestedMap EXCEPT ![k2] = WriteNested(@, row)]
    /\ index' = (index \ {k1}) \cup {k2}
    /\ indexOrder' = IF InOrder(k2) THEN indexOrder
                     ELSE Append(indexOrder, k2)
    /\ Commit(cleanupIndexFirst(Ctx(rowMap', nestedMap'), Machine, k2,
                                 IF k2 \in index THEN <<>> ELSE <<k2>>,
                                 IF k1 \in index THEN <<k1>> ELSE <<>>))
    /\ rawMap' = [rawMap EXCEPT ![k2] = WriteRaw(@, row)]
    /\ op' = [name |-> "removeUpsert", key |-> k2, removed |-> k1]
    /\ UNCHANGED <<tbl, sub>>

NextBatch ==
    \/ \E k \in Keys, row \in SeedRows : Upsert(k, row)
    \/ \E k1 \in Keys, k2 \in Keys, row \in SeedRows :
          RemoveUpsert(k1, k2, row)
    \/ \E k \in Keys, data \in SeedPartials : Update(k, data)
    \/ \E k \in Keys : Remove(k)
    \/ \E k \in Keys : IndexSet(k)
    \/ \E level \in Levels, query \in WatchQueries : Watch(level, query)

SpecBatch == Init /\ [][NextBatch]_vars

\* The keys of a list of rows.
RowKeys(rs) == {rs[i].key : i \in 1..Len(rs)}

\* C16: within one invocation of the watcher, no key occurs in two of
\* `added`, `removed` and `changed`.
C16_DeltasDisjoint ==
    \A i \in 1..Len(calls) :
        /\ RowKeys(calls[i].added) \cap RowKeys(calls[i].removed) = {}
        /\ RowKeys(calls[i].added) \cap RowKeys(calls[i].changed) = {}
        /\ RowKeys(calls[i].removed) \cap RowKeys(calls[i].changed) = {}

\* One transaction removed a visible row and added another: the watcher
\* got both in one invocation.
C16_Witness ==
    /\ Active
    /\ op.name = "removeUpsert"
    /\ \E i \in 1..Len(calls) :
          /\ RowKeys(calls[i].added) = {op.key}
          /\ RowKeys(calls[i].removed) = {op.removed}

----------------------------------------------------------------------------
(* A fourth specification, for the codec and the mutation API alone: no    *)
(* subscription, and rows that give or omit the optional field.            *)

CodecRows ==
    {r \in FullRows : r.bar = "a"}
    \cup [foo : Bools, bar : {"a"}, opt : {"a"}, nested : [value : Strs]]

NextCodec ==
    \/ \E k \in MainKeys, row \in CodecRows : Upsert(k, row)
    \/ \E k \in Keys \ MainKeys, row \in SeedRows : Upsert(k, row)
    \/ \E k \in MainKeys, data \in {p \in Partials : p.bar = Undef} : Update(k, data)
    \/ \E k \in Keys : Remove(k)
    \/ \E k \in MainKeys : IndexSet(k)
    \/ \E k \in MainKeys : RawSet(k)

SpecCodec == Init /\ [][NextCodec]_vars

\* The row upsert() was called with, key included.
UpsertedRow == [key |-> op.key] @@ op.row

\* C18: after upsert(doc, T, row), whatever the document held before,
\* getKey(doc, T, row.key) equals row on all inline and nested-record
\* fields, and row appears in select(doc, T, any()).
C18_PresenceEquivalence ==
    op.name = "upsert" =>
        /\ getKey(op.key) = UpsertedRow
        /\ \E i \in 1..Len(select(any)) : select(any)[i] = UpsertedRow

\* C19: after remove(doc, T, k), getKey(k) is null and k is not in
\* select(any()); the row container, the nested sub-container and the raw
\* container of every key hold what they held before.
C19_SoftDelete ==
    [][\A k \in Keys :
         (op'.name = "remove" /\ op'.key = k) =>
            /\ getKey(k)' = Null
            /\ k \notin RowKeys(select(any))'
            /\ rowMap' = rowMap
            /\ nestedMap' = nestedMap
            /\ rawMap' = rawMap]_vars

\* A valid row with a written raw container was removed: the reads hide
\* it and its containers still hold the data.
C19_Witness ==
    /\ op.name = "remove"
    /\ InOrder(op.key) /\ op.key \notin index
    /\ readDataPresent(rowMap, nestedMap, op.key) # Null
    /\ rawMap[op.key]
    /\ getKey(op.key) = Null
    /\ select(any) # <<>>

\* C20: an upsert() of a key that was removed earlier yields
\* getKey(row.key) = row, with no field value from before the remove, and
\* leaves the raw container as it was.
C20_UpsertAfterRemove ==
    [][\A k \in Keys :
         (op'.name = "upsert" /\ op'.key = k /\ op'.was = "removed") =>
            /\ getKey(k)' = UpsertedRow'
            /\ rawMap'[k] = rawMap[k]]_vars

----------------------------------------------------------------------------
\* The row r with the fields that the partial payload data gives, at the
\* row level and inside the nested record.
Merged(r, data) ==
    [r EXCEPT !.foo = IF data.foo = Undef THEN @ ELSE data.foo,
              !.bar = IF data.bar = Undef THEN @ ELSE data.bar,
              !.nested.value =
                  IF data.nested = Omitted THEN @
                  ELSE IF data.nested.value = Undef THEN @
                       ELSE data.nested.value]

\* C21: an update() of a row that reads as valid changes exactly the
\* fields its payload gives and leaves every omitted field as it was, in
\* the row and inside the nested record; a payload with only the key
\* leaves getKey unchanged.
C21_PartialMerge ==
    [][\A k \in Keys, data \in Partials :
         (Update(k, data) /\ getKey(k) # Null) =>
            getKey(k)' = Merged(getKey(k), data)]_vars

\* An update gave only an inline field of a row that holds the optional
\* field and a nested record: the read shows the new value and keeps both.
C21_Witness ==
    /\ op.name = "update" /\ op.inline /\ ~op.sub
    /\ getKey(op.key) # Null
    /\ getKey(op.key).foo = "false"
    /\ "opt" \in DOMAIN getKey(op.key)
    /\ getKey(op.key).nested.value = "b"

----------------------------------------------------------------------------
\* Operand filters of the combinators.
JoinFilters ==
    {any, eq("foo", "true"), eq("foo", "false"), eq("bar", "a"),
     eq("bar", "b"), not(eq("foo", "true"))}

\* C22: the keys of select(and(f, g)) are those in both select(f) and
\* select(g), the keys of select(or(f, g)) those in either, and the keys of
\* select(not(f)) those of select(any()) that select(f) does not return.
C22_FilterJoin ==
    \A f \in JoinFilters, g \in JoinFilters :
        /\ RowKeys(select(and(f, g))) =
               RowKeys(select(f)) \cap RowKeys(select(g))
        /\ RowKeys(select(or(f, g))) =
               RowKeys(select(f)) \cup RowKeys(select(g))
        /\ RowKeys(select(not(f))) =
               RowKeys(select(any)) \ RowKeys(select(f))

\* Two valid rows that differ in foo: the two eq filters select one row
\* each, their conjunction none and their disjunction both.
C22_Witness ==
    /\ RowKeys(select(any)) = Keys
    /\ RowKeys(select(eq("foo", "true"))) = {"k1"}
    /\ RowKeys(select(eq("foo", "false"))) = {"k2"}
    /\ select(and(eq("foo", "true"), eq("foo", "false"))) = <<>>
    /\ Len(select(or(eq("foo", "true"), eq("foo", "false")))) = 2

----------------------------------------------------------------------------
(* A fifth specification, for watchKey(): one watched key, the mutation    *)
(* API on both keys, and upserts of rows the schema rejects.               *)

\* The rows and updates of the tests; some carry a Y.Map for the raw
\* field, empty (FALSE) or with an entry set (TRUE).
KeyRows ==
    SeedRows
    \cup [foo : {"true"}, bar : {"a"}, nested : {[value |-> "a"]},
          rawMap : BOOLEAN]
KeyPartials ==
    {p \in Partials : p.foo = Undef /\ p.bar # Undef /\ p.nested = Omitted}
    \cup {[foo |-> Undef, bar |-> "b", nested |-> Omitted, rawMap |-> TRUE]}
InvalidRows ==
    {[foo |-> "true", bar |-> Undef, nested |-> [value |-> "a"]],
     [foo |-> "true", bar |-> "a", nested |-> [value |-> Undef]]}

NextKey ==
    \/ \E k \in Keys, row \in KeyRows \cup InvalidRows : Upsert(k, row)
    \/ \E k \in MainKeys, row \in KeyRows \cup InvalidRows :
          UpsertThrows(k, row)
    \/ \E k \in MainKeys, data \in KeyPartials : Update(k, data)
    \/ \E k \in Keys : Remove(k)
    \/ \E k \in MainKeys : IndexSet(k)
    \/ \E k \in MainKeys : RawSet(k)
    \/ \E level \in Levels, k \in MainKeys : WatchKey(level, k)
    \/ UnwatchKey

SpecKey == Init /\ [][NextKey]_vars

KeyActive == wk.status = "active"

\* C27: watchKey() invokes its callback once at subscribe, with what
\* getKey returns for the key; afterwards a step that adds the key to the
\* index invokes it with the row if the row validates, and a step that
\* deletes the key from the index invokes it with null.
C27_WatchKeyCallbacks ==
    [][\A k \in Keys :
         /\ (op'.name = "watchKey" /\ wk'.key = k) =>
                kcalls' = <<getKey(k)>>
         /\ (KeyActive /\ wk.key = k /\ k \notin index /\ k \in index'
               /\ getKey(k)' # Null) =>
                /\ kcalls' # <<>>
                /\ \A i \in 1..Len(kcalls') : kcalls'[i] = getKey(k)'
         /\ (KeyActive /\ wk.key = k /\ k \in index /\ k \notin index') =>
                kcalls' = <<Null>>]_vars

\* The watched key was removed earlier and an upsert has put it back: the
\* callback received the upserted row.
C27_Witness ==
    /\ KeyActive
    /\ op.name = "upsert" /\ op.key = wk.key /\ op.was = "removed"
    /\ kcalls # <<>>
    /\ kcalls[1] = UpsertedRow

\* C28: a watchKey() subscription at level 'keys' invokes its callback only
\* at subscribe and when the key is added to or deleted from the index: a
\* step that leaves the index as it was makes no callback.
C28_KeysLevelIndexOnly ==
    [][(KeyActive /\ wk.level = "keys" /\ index' = index) =>
          kcalls' = <<>>]_vars

\* C23: an upsert of a row that the schema rejects raises and changes
\* nothing: no container of the document and no index entry is written,
\* no observer is attached or detached, and no watcher is invoked.
C23_InvalidUpsertRejected ==
    [][\A k \in Keys, row \in InvalidRows :
         (Upsert(k, row) \/ UpsertThrows(k, row)) =>
            /\ op'.name = "upsertThrows"
            /\ UNCHANGED <<docVars, obsVars, subVars>>
            /\ calls' = <<>>
            /\ kcalls' = <<>>]_vars

\* A rejected upsert of the watched key, while the key is in the index and
\* its row is observed.
C23_Witness ==
    /\ op.name = "upsertThrows"
    /\ KeyActive /\ wk.observed
    /\ op.key = wk.key
    /\ getKey(op.key) # Null
    /\ kcalls = <<>>

\* The rows with key k among those a list of watch() invocations carries
\* as added or changed.
Delivered(cs, k) ==
    {r \in RowKeys(AddedRows(cs)) \cup RowKeys(ChangedRows(cs)) : r = k}

\* C24: update() never changes the index, and an update of a key that is
\* not in the index leaves the row invisible: getKey returns null, select
\* omits the key, neither a watch() nor a watchKey() callback delivers the
\* row, and visibleData does not hold it.
C24_UpdateKeepsRowInvisible ==
    [][\A k \in Keys :
         (op'.name = "update" /\ op'.key = k) =>
            /\ index' = index
            /\ k \notin index =>
                  /\ getKey(k)' = Null
                  /\ k \notin RowKeys(select(any))'
                  /\ Delivered(calls', k) = {}
                  /\ \A i \in 1..Len(kcalls') : kcalls'[i] = Null
                  /\ Active => visibleData'[k] = Null]_vars

\* C25: upsert() and update() leave the content of the raw container of
\* every row as it was, whatever their payload carries for the raw field,
\* and content written through the handle of a read stays there for every
\* later read.
C25_RawContainersUntouched ==
    [][/\ op'.name \in {"upsert", "update"} => rawMap' = rawMap
       /\ \A k \in Keys :
            /\ rawMap[k] => rawMap'[k]
            /\ (op'.name = "rawSet" /\ op'.key = k) => rawMap'[k]]_vars

\* An upsert whose row carries a new, empty Y.Map for the raw field, on a
\* key whose raw container was written before: the content is still there.
C25_Witness ==
    /\ op.name = "upsert"
    /\ "rawMap" \in DOMAIN op.row
    /\ ~op.row.rawMap
    /\ rawMap[op.key]
    /\ getKey(op.key) # Null

\* C26: a local upsert writes the fields and the index entry in one
\* transaction, so when it puts a key into the index with a row that
\* passes the filter, watch() reports the row as `added` in one callback
\* of that step, exactly once, and holds it as visible and not as pending.
C26_UpsertAddsDirectly ==
    [][\A k \in Keys :
         (/\ Active
          /\ op'.name = "upsert" /\ op'.key = k /\ op'.was # "present"
          /\ Query(sub.query, rowMap'[k])) =>
            /\ getKey(k)' = [key |-> k] @@ op'.row
            /\ \E i \in 1..Len(calls') :
                  calls'[i] = Call(<<getKey(k)'>>, <<>>, <<>>, calls'[i].vis)
            /\ AddedRows(calls') = <<getKey(k)'>>
            /\ visibleData'[k] = getKey(k)'
            /\ ~PendingKey(k)']_vars

\* An upsert of a new key under an active subscription whose filter the
\* row passes: one callback, with the row as added.
C26_Witness ==
    /\ Active
    /\ op.name = "upsert" /\ op.was = "new"
    /\ Len(calls) = 1
    /\ calls[1].added = <<UpsertedRow>>
    /\ visibleData[op.key] = UpsertedRow

\* The observers a watch() subscription has on the row container of k.
WatchObservers(e, d, k) ==
    {<<"eh", i>> : i \in {j \in 1..Len(e[k]) : e[k][j].kind \in {"row", "wait"}}}
    \cup
    {<<"deh", i>> : i \in {j \in 1..Len(d[k]) : d[k][j].kind \in {"row", "wait"}}}

\* C29: while a watch() subscription is active it has at most one observer
\* on the row container of a key, only for a key that is visible or
\* pending, and one mutation of a row causes at most one callback.
C29_ObserversBounded ==
    [][Active' =>
         /\ \A k \in Keys :
              /\ Cardinality(WatchObservers(eh', deh', k)) <= 1
              /\ WatchObservers(eh', deh', k) # {} =>
                    (visibleData'[k] # Null \/ PendingKey(k)')
         /\ MutationStep => Len(calls') <= 1]_vars

----------------------------------------------------------------------------
(* A sixth specification, for rows that stop validating while they are     *)
(* visible: one key, and a write that removes a required field.            *)

NextSync ==
    \/ \E k \in MainKeys, row \in SeedRows : Upsert(k, row)
    \/ \E k \in MainKeys,
          data \in {p \in Partials : p.foo = Undef /\ p.nested = Omitted} :
          Update(k, data)
    \/ \E k \in MainKeys : RowDelete(k)
    \/ \E k \in MainKeys : Remove(k)
    \/ \E k \in MainKeys : IndexSet(k)
    \/ \E level \in Levels, query \in WatchQueries : Watch(level, query)

SpecSync == Init /\ [][NextSync]_vars

\* The step writes the row container of k.
RowWritten(k) ==
    /\ op'.key = k
    /\ \/ op'.name \in {"upsert", "rowDelete"}
       \/ op'.name = "update" /\ op'.inline

\* C30: when the row container of a visible, observed row is written and
\* the row still passes the filter but no longer validates, the watcher is
\* not invoked and visibleData stays as it was; the next write after which
\* the row validates reports it as `changed`.
C30_InvalidVisibleRowKept ==
    [][\A k \in Keys :
         (/\ Active /\ visibleData[k] # Null /\ k \in index
          /\ RowObserved(eh, deh, k)
          /\ RowWritten(k)
          /\ Query(sub.query, rowMap'[k])) =>
            /\ getKey(k)' = Null =>
                  (calls' = <<>> /\ visibleData' = visibleData)
            /\ (getKey(k) = Null /\ getKey(k)' # Null) =>
                  /\ ChangedRows(calls') # <<>>
                  /\ \A i \in 1..Len(calls') :
                        calls'[i] =
                            Call(<<>>, <<>>, <<getKey(k)'>>, calls'[i].vis)
                  /\ visibleData'[k] = getKey(k)']_vars

\* A visible, observed row has lost a required field: the filter is still
\* true, the read fails, the watcher was not invoked and visibleData holds
\* the last validated value.
C30_Witness ==
    /\ Active
    /\ op.name = "rowDelete"
    /\ op.key \in index
    /\ RowObserved(eh, deh, op.key)
    /\ Query(sub.query, rowMap[op.key])
    /\ getKey(op.key) = Null
    /\ calls = <<>>
    /\ visibleData[op.key] # Null
    /\ visibleData[op.key].bar \in Strs

----------------------------------------------------------------------------
\* The position of key k in the iteration order of the index.
IndexPos(k) == CHOOSE i \in 1..Len(indexOrder) : indexOrder[i] = k

\* C37: select(f) returns, in the iteration order of the index, exactly
\* the validated rows of the keys of the index whose row container passes
\* f and whose full read validates; a key is in select(any()) exactly when
\* getKey returns a row for it.
C37_SelectExact ==
    /\ \A f \in JoinFilters :
         /\ RowKeys(select(f)) =
               {k \in index : Query(f, rowMap[k]) /\ getKey(k) # Null}
         /\ \A i \in 1..Len(select(f)) :
               select(f)[i] = getKey(select(f)[i].key)
         /\ \A i \in 1..Len(select(f)), j \in 1..Len(select(f)) :
               i < j => IndexPos(select(f)[i].key) < IndexPos(select(f)[j].key)
    /\ \A k \in Keys : k \in RowKeys(select(any)) <=> getKey(k) # Null

\* Two valid rows whose keys entered the index in the order k2, k1: select
\* returns them in that order; the filter on foo keeps one of them.
C37_Witness ==
    /\ indexOrder = <<"k2", "k1">>
    /\ select(any) = <<getKey("k2"), getKey("k1")>>
    /\ getKey("k1") # Null /\ getKey("k2") # Null
    /\ Len(select(eq("foo", "true"))) = 1

\* C32: while a watch() subscription is active, every key that has a row
\* in visibleData is a key of the table index.
C32_VisibleKeysPresent ==
    Active => \A k \in Keys : visibleData[k] # Null => k \in index

\* C33, as stated: while a watch() subscription is active, at every level,
\* the row container of every key that has a row in visibleData passes the
\* filter of the subscription.
C33_VisibleRowsMatch ==
    Active =>
        \A k \in Keys : visibleData[k] # Null => Query(sub.query, rowMap[k])

\* C33, amended: while a watch() subscription at level 'content' or 'deep'
\* is active, the row container of every key that has a row in visibleData
\* passes the filter of the subscription.
C33_ObservedRowsMatch ==
    (Active /\ watchContent(sub.level)) =>
        \A k \in Keys : visibleData[k] # Null => Query(sub.query, rowMap[k])

\* At level 'content' or 'deep' an update has made the filter of a visible
\* row false: the row was reported as removed and has left visibleData.
C33_Witness ==
    /\ Active /\ watchContent(sub.level)
    /\ op.name = "update" /\ op.inline
    /\ op.key \in index
    /\ ~Query(sub.query, rowMap[op.key])
    /\ RemovedRows(calls) # <<>>
    /\ visibleData[op.key] = Null

\* C34: while the key of an active watchKey() subscription is deleted from
\* the index (it was there before and has not been added again), no step
\* invokes the callback with a row.
C34_WatchKeyAbsence ==
    [][\A k \in Keys :
         (/\ KeyActive /\ wk.key = k
          /\ InOrder(k) /\ k \notin index /\ k \notin index') =>
            \A i \in 1..Len(kcalls') : kcalls'[i] = Null]_vars

C36_UnwatchReleasesObservers ==
    [][sub'.status = "unwatched" =>
         /\ ~Attached(tbl', "watch")
         /\ \A k \in Keys : WatchObservers(eh', deh', k) = {}
         /\ sub.status = "unwatched" => visibleData' = visibleData]_vars

----------------------------------------------------------------------------
(* A seventh specification, for the order of the notifications of one key: *)
(* the watcher keeps the keys it was given.                                *)

NextProto ==
    \/ \E k \in MainKeys, row \in SeedRows : Upsert(k, row)
    \/ \E k \in MainKeys, data \in {p \in Partials : p.nested = Omitted} :
          Update(k, data)
    \/ \E k \in MainKeys : Remove(k)
    \/ \E k \in MainKeys : IndexSet(k)
    \/ \E level \in Levels, query \in WatchQueries :
          WatchMirrored(level, query)

SpecProto == Init /\ [][NextProto]_vars

\* The invocations cs follow the protocol for a watcher that holds the
\* keys t: a key given as added is not held, a key given as changed or
\* removed is held.
RECURSIVE ProtocolOk(_, _)
ProtocolOk(t, cs) ==
    IF cs = <<>> THEN TRUE
    ELSE /\ RowKeys(Head(cs).added) \cap t = {}
         /\ RowKeys(Head(cs).changed) \subseteq t
         /\ RowKeys(Head(cs).removed) \subseteq t
         /\ ProtocolOk(Told(t, <<Head(cs)>>), Tail(cs))

\* C31: for every key the notifications of a watch() subscription come as
\* added, then changed any number of times, then removed, then possibly
\* added again: a key is not given as added while the watcher holds it and
\* not given as changed or removed while the watcher does not hold it.
C31_NotificationProtocol ==
    [][Active' => ProtocolOk(told.keys, calls')]_vars

----------------------------------------------------------------------------
(* An eighth specification, for the codec over the schema of table V: the  *)
(* storage of field x under every schema node, tagged unions, and fields   *)
(* named key.                                                              *)

\* The record node of x has the fields key and content; the union node has
\* the discriminator type and three variants.
RecordShape == {"key", "content"}
Variants ==
    [text |-> {"type", "content"}, number |-> {"type", "value"},
     keyed |-> {"type", "key"}]

\* safeParse of one field of a record or variant shape.
FieldValid(f, v) ==
    CASE f = "type" -> v \in DOMAIN Variants
      [] f = "content" -> v \in Strs
      [] f = "value" -> v = "42"
      [] f = "key" -> v = "n1"

\* A value restricted to the fields of a shape: what parse returns.
Strip(v, shape) == [f \in ValFields |-> IF f \in shape THEN v[f] ELSE Undef]

\* type.safeParse(value) succeeds, for the node kind of x.
ValidFor(kind, v) ==
    CASE kind = "primitive" -> v.prim \in Strs
      [] kind = "record" -> \A f \in RecordShape : FieldValid(f, v[f])
      [] kind = "union" ->
            /\ v.type \in DOMAIN Variants
            /\ \A f \in Variants[v.type] : FieldValid(f, v[f])
      [] kind = "raw" -> v.handle = "ymap"

Parsed(kind, v) ==
    CASE kind = "primitive" -> Strip(v, {"prim"})
      [] kind = "record" -> Strip(v, RecordShape)
      [] kind = "union" -> Strip(v, Variants[v.type])
      [] kind = "raw" -> Strip(v, {"handle"})

\* readObject: where the value of the field is stored.
shouldSyncAsMapRead(n) ==
    (n.syncAs = "map" \/ (n.syncAs = "none" /\ n.kind \in {"record", "union"}))
    /\ ~n.shallow

readBranch(n) ==
    IF shouldSyncAsMapRead(n) /\ n.kind = "union" THEN "union"
    ELSE IF shouldSyncAsMapRead(n) /\ n.kind = "record" THEN "record"
    ELSE IF n.syncAs # "none" THEN "raw"
    ELSE "inline"

\* Variant: the option shallow is not consulted by the write path.
shouldSyncAsMapWrite_IgnoresShallow(n) ==
    n.syncAs = "map" \/ (n.syncAs = "none" /\ n.kind \in {"record", "union"})

\* writeObject: where the value of the field is stored.
shouldSyncAsMapWrite(n) ==
    (n.syncAs = "map" \/ (n.syncAs = "none" /\ n.kind \in {"record", "union"}))
    /\ ~n.shallow

writeBranch(n) ==
    IF shouldSyncAsMapWrite(n) /\ n.kind = "union" THEN "union"
    ELSE IF shouldSyncAsMapWrite(n) /\ n.kind = "record" THEN "record"
    ELSE IF n.syncAs # "none" THEN "raw"
    ELSE "inline"

\* writeObject: if ('key' in data) delete data.key
StripKey(v) == [v EXCEPT !["key"] = Undef]

\* writeObject on the sub-container, with the schema of a record or of a
\* variant: the key is stripped, an undefined field is skipped, every
\* other field of the shape is set.
writeSubObject(sb, v, shape) ==
    [f \in SubFields |->
        IF f \in shape /\ StripKey(v)[f] # Undef THEN StripKey(v)[f]
        ELSE sb[f]]

\* Variant: a payload that matches no variant is written with the shape
\* of the first variant.
writeUnion_FirstVariant(sb, v) ==
    IF v.type \in DOMAIN Variants
    THEN writeSubObject(sb, v, Variants[v.type])
    ELSE writeSubObject(sb, v, Variants["text"])

\* writeUnion: the variant is found by the discriminator of the payload;
\* nothing is written when there is none.
writeUnion(sb, v) ==
    IF v.type \in DOMAIN Variants
    THEN writeSubObject(sb, v, Variants[v.type])
    ELSE sb

\* The branch of writeObject for field x.
writeField(n, rw, sb, v) ==
    IF v = NoVal THEN [row |-> rw, sub |-> sb]
    ELSE CASE writeBranch(n) = "union" ->
                 [row |-> rw, sub |-> writeUnion(sb, v)]
           [] writeBranch(n) = "record" ->
                 [row |-> rw, sub |-> writeSubObject(sb, v, RecordShape)]
           [] writeBranch(n) = "raw" -> [row |-> rw, sub |-> sb]
           [] writeBranch(n) = "inline" ->
                 [row |-> [rw EXCEPT !.x = v], sub |-> sb]

\* writeObject on the row container of table V: the key is stripped, then
\* the fields key, simple and x of the shape are written if defined.
writeRowV(n, rw, sb, data) ==
    writeField(n,
        [rw EXCEPT !.key = IF [data EXCEPT !.key = Undef].key # Undef
                           THEN data.key ELSE @,
                   !.simple = IF data.simple # Undef THEN data.simple ELSE @],
        sb, data.x)

\* readObject on the sub-container, without userKey: the fields of the
\* shape are read and validated.
readSubObject(sb, shape) ==
    IF \A f \in shape : FieldValid(f, sb[f])
    THEN [f \in ValFields |-> IF f \in shape THEN sb[f] ELSE Undef]
    ELSE Null

\* readUnion: the variant is found by the stored discriminator.
readUnion(sb) ==
    IF sb.type = Undef THEN Null
    ELSE IF sb.type \notin DOMAIN Variants THEN Null
    ELSE readSubObject(sb, Variants[sb.type])

\* The branch of readObject for field x.
readField(n, rw, sb) ==
    CASE readBranch(n) = "union" -> readUnion(sb)
      [] readBranch(n) = "record" -> readSubObject(sb, RecordShape)
      [] readBranch(n) = "raw" -> Val([handle |-> "ymap"])
      [] readBranch(n) = "inline" -> rw.x

\* readObject on the row container of table V, with userKey k.
readRowV(n, rw, sb, k) ==
    IF readField(n, rw, sb) = Null THEN Null
    ELSE IF rw.simple \in Strs /\ ValidFor(n.kind, readField(n, rw, sb))
         THEN [key |-> k, simple |-> rw.simple,
               x |-> Parsed(n.kind, readField(n, rw, sb))]
         ELSE Null

getKeyV == IF vindex THEN readRowV(node, vrow, vsub, "k1") ELSE Null

\* table.type.parse(row) of table V returns.
parsesV(n, data) == data.simple \in Strs /\ ValidFor(n.kind, data.x)

\* The values of x in the payloads, for each kind of node: full values,
\* partial ones, and union values without a matching variant.
XValues(kind) ==
    CASE kind = "primitive" -> {Val([prim |-> "a"]), Val([prim |-> "b"])}
      [] kind = "record" ->
            {Val([key |-> "n1", content |-> "a"]), Val([content |-> "b"])}
      [] kind = "union" ->
            {Val([type |-> "text", content |-> "a"]),
             Val([type |-> "number", value |-> "42"]),
             Val([type |-> "keyed", key |-> "n1"]),
             Val([type |-> "bogus", content |-> "b"]),
             Val([content |-> "b"])}
      [] kind = "raw" -> {Val([handle |-> "ymap"])}

PayloadsV(kind) ==
    [key : {"k1"}, simple : {"a", "b", Undef}, x : XValues(kind) \cup {NoVal}]

\* upsert(doc, V, row)
UpsertV(data) ==
    /\ parsesV(node, data)
    /\ vrow' = writeRowV(node, vrow, vsub,
                         [data EXCEPT !.x = Parsed(node.kind, @)]).row
    /\ vsub' = writeRowV(node, vrow, vsub,
                         [data EXCEPT !.x = Parsed(node.kind, @)]).sub
    /\ vindex' = TRUE
    /\ calls' = <<>>
    /\ kcalls' = <<>>
    /\ op' = [name |-> "upsertV", row |-> data]
    /\ UNCHANGED <<docVars, obsVars, subVars, wk, told, node>>

\* upsert(doc, V, row) when table.type.parse(row) throws.
UpsertVThrows(data) ==
    /\ ~parsesV(node, data)
    /\ calls' = <<>>
    /\ kcalls' = <<>>
    /\ op' = [name |-> "upsertVThrows", row |-> data]
    /\ UNCHANGED <<docVars, obsVars, subVars, wk, told, schemaVars>>

\* update(doc, V, partial)
UpdateV(data) ==
    /\ vrow' = writeRowV(node, vrow, vsub, data).row
    /\ vsub' = writeRowV(node, vrow, vsub, data).sub
    /\ calls' = <<>>
    /\ kcalls' = <<>>
    /\ op' = [name |-> "updateV", row |-> data]
    /\ UNCHANGED <<docVars, obsVars, subVars, wk, told, node, vindex>>

\* remove(doc, V, 'k1')
RemoveV ==
    /\ vindex' = FALSE
    /\ calls' = <<>>
    /\ kcalls' = <<>>
    /\ op' = [name |-> "removeV"]
    /\ UNCHANGED <<docVars, obsVars, subVars, wk, told, node, vrow, vsub>>

NextSchema ==
    \/ \E data \in PayloadsV(node.kind) : UpsertV(data)
    \/ \E data \in PayloadsV(node.kind) : UpsertVThrows(data)
    \/ \E data \in PayloadsV(node.kind) : UpdateV(data)
    \/ RemoveV

InitSchema ==
    /\ InitBase
    /\ node \in Nodes

SpecSchema == InitSchema /\ [][NextSchema]_vars

\* C39: for every combination of node kind, syncAs and shallow the read
\* path and the write path choose the same storage; the storage is a
\* sub-container when syncAs names a container kind or the node is a
\* record or tagged union without shallow, and inline otherwise; a write
\* touches only the storage so chosen.
C39_StorageDecision ==
    [][LET SubContainer ==
               \/ node.syncAs # "none"
               \/ node.kind \in {"record", "union"} /\ ~node.shallow
       IN  /\ readBranch(node) = writeBranch(node)
           /\ (writeBranch(node) # "inline") <=> SubContainer
           /\ SubContainer => vrow'.x = vrow.x
           /\ ~SubContainer => vsub' = vsub
           /\ (~SubContainer /\ op'.name \in {"upsertV", "updateV"}
                 /\ op'.row.x # NoVal)
              => vrow'.x = (IF op'.name = "upsertV"
                            THEN Parsed(node.kind, op'.row.x)
                            ELSE op'.row.x)]_vars

C39_Witness ==
    /\ node = [kind |-> "record", syncAs |-> "none", shallow |-> TRUE]
    /\ op.name = "upsertV"
    /\ vrow.x = Val([key |-> "n1", content |-> "a"])
    /\ vsub = [f \in SubFields |-> Undef]
    /\ getKeyV # Null

\* The payload of the step carries, for a union field stored in its
\* sub-container, a discriminator that matches no variant, or none.
UnknownVariant(n, o) ==
    /\ o.name \in {"upsertV", "upsertVThrows", "updateV"}
    /\ writeBranch(n) = "union"
    /\ o.row.x # NoVal
    /\ o.row.x.type \notin DOMAIN Variants

\* C38 as stated: with a discriminator that matches no variant (or none),
\* upsert and update write nothing into the sub-container of the field,
\* raise no error, and write the other fields of the payload.
C38_UnknownVariantDropped ==
    [][UnknownVariant(node, op') =>
          /\ op'.name # "upsertVThrows"
          /\ vsub' = vsub
          /\ op'.row.simple # Undef => vrow'.simple = op'.row.simple]_vars

\* C38, amended: update with such a payload writes nothing into the
\* sub-container, raises no error and writes the other fields; upsert with
\* such a payload is rejected by validation and writes nothing at all.
C38_UnknownVariantUpdate ==
    [][UnknownVariant(node, op') =>
          /\ op'.name # "upsertV"
          /\ vsub' = vsub
          /\ op'.name = "updateV" =>
                /\ op'.row.simple # Undef => vrow'.simple = op'.row.simple
                /\ vindex' = vindex
          /\ op'.name = "upsertVThrows" => UNCHANGED schemaVars]_vars

C38_Witness ==
    /\ UnknownVariant(node, op)
    /\ op.name = "updateV"
    /\ op.row.x = Val([type |-> "bogus", content |-> "b"])
    /\ op.row.simple = "b"
    /\ vrow.simple = "b"
    /\ vsub.type = "text"
    /\ vsub.content = "a"
    /\ vindex

\* C40: only the key of the row is withheld from storage: upsert never
\* writes it into the row container, a field named key of a nested record
\* or variant is written to the sub-container, and getKey after the
\* upsert returns the row, with the key synthesised.
C40_KeyRoundTrip ==
    [][(op'.name = "upsertV"
         /\ ((node.kind = "raw") <=> (writeBranch(node) = "raw"))) =>
          /\ vrow'.key = Undef
          /\ (writeBranch(node) \in {"record", "union"}
                /\ op'.row.x.key # Undef) => vsub'.key = op'.row.x.key
          /\ getKeyV' = [key |-> "k1", simple |-> op'.row.simple,
                         x |-> Parsed(node.kind, op'.row.x)]]_vars

====
